---------------------------- MODULE Spec2Model ----------------------------
(***************************************************************************)
(* Model of the authentication / API-key core of the Time Zone Conversion  *)
(* API: project/authenticate_user_service.py, issue_api_key_service.py and *)
(* the two request handlers of project/server.py that call them.           *)
(*                                                                         *)
(* Every call is a coroutine; the steps of a call are the pieces of code   *)
(* between its suspension points, and the steps of different calls         *)
(* interleave freely.  Time is counted in minutes.                         *)
(***************************************************************************)
EXTENDS Integers, Sequences, FiniteSets, TLC

(* ------------------------------ bounds -------------------------------- *)
NumCalls == 2          \* calls (coroutines) that may be in flight
MaxClock == 1          \* the clock ticks at most this many minutes

(* ------------------------- program constants -------------------------- *)
SECRET_KEY == "YOUR_SECRET_KEY"
ALGORITHM == "HS256"
DEFAULT_EXPIRE_MINUTES == 15
ACCESS_TOKEN_EXPIRE_MINUTES == 60
API_KEY_EXPIRE_DAYS == 365
MINUTES_PER_DAY == 1440

Calls == 1..NumCalls

ADMIN == "ADMIN"
USER == "USER"

(* The optional timedelta argument: {} is None, {m} is timedelta(minutes=m) *)
NoDelta == {}
timedelta(m) == {m}
Minutes(d) == CHOOSE m \in d : TRUE

(* a generator that repeats itself *)
uuid4_repeating(n) == <<"uuid4", 1>>

(* str(uuid.uuid4()): the n-th value drawn; distinct draws are distinct    *)
uuid4(n) == <<"uuid4", n>>
NoKey == <<>>

(* a verifier that accepts every password *)
verify_password_accepting(plain_password, hashed_password) == TRUE

(* passlib bcrypt: the stored digest of a password, and its verification  *)
bcrypt_hash(p) == <<"bcrypt", p>>
verify_password(plain_password, hashed_password) ==
    hashed_password = bcrypt_hash(plain_password)

(* ------------------------- the user repository ------------------------ *)
UserRows ==
    { [id |-> "u1", email |-> "alice", password |-> bcrypt_hash("pwA"),
       role |-> ADMIN, apiKey |-> NoKey],
      [id |-> "u2", email |-> "bob", password |-> bcrypt_hash("pwB"),
       role |-> USER, apiKey |-> NoKey],
      [id |-> "u3", email |-> "carol", password |-> bcrypt_hash("pwA"),
       role |-> ADMIN, apiKey |-> uuid4(0)] }

UserIds == { r.id : r \in UserRows }
InitialDb == [ i \in UserIds |-> CHOOSE r \in UserRows : r.id = i ]

(* inputs of the requests *)
RequestIds == UserIds \cup {"u9"}
Handles == {"alice", "bob", "mallory"}
Passwords == {"pwA", "pwB"}
Permissions == { <<"read", "write">> }

None == [none |-> TRUE]

(* prisma find_unique(where={"id": ...}) / (where={"email": ...}) *)
find_unique_by_id(table, user_id) ==
    IF user_id \in DOMAIN table THEN table[user_id] ELSE None

find_unique_by_email(table, username) ==
    IF \E i \in DOMAIN table : table[i].email = username
    THEN table[CHOOSE i \in DOMAIN table : table[i].email = username]
    ELSE None

(* an update that does not reach the row *)
update_apiKey_dropped(table, user_id, key) == table

(* prisma update(where={"id": user_id}, data={"apiKey": key}) *)
update_apiKey(table, user_id, key) ==
    [table EXCEPT ![user_id].apiKey = key]

(* a role check that lets every role through *)
role_denied_never(user) == FALSE

(* "if not user" and "if user.role != prisma.enums.UserRole.ADMIN" *)
user_missing(user) == user = None
role_denied(user) == user.role # ADMIN

HTTPException(code, text) ==
    [kind |-> "raise", status_code |-> code, detail |-> text]
Returned(v) == [kind |-> "return", value |-> v]
NoOutcome == [kind |-> "pending"]

(* jwt.encode(payload, key, algorithm) *)
jwt_encode(payload, key, algorithm) ==
    [payload |-> payload, key |-> key, alg |-> algorithm]

(* a minter that ignores the caller's ttl *)
create_access_token_default_only(data, expires_delta, t) ==
    jwt_encode(("exp" :> (t + DEFAULT_EXPIRE_MINUTES)) @@ data,
               SECRET_KEY, ALGORITHM)

(* create_access_token(data, expires_delta) evaluated at time t *)
create_access_token(data, expires_delta, t) ==
    LET truthy == expires_delta # NoDelta /\ expires_delta # timedelta(0)
        exp == IF truthy THEN t + Minutes(expires_delta)
                         ELSE t + DEFAULT_EXPIRE_MINUTES
        to_encode == ("exp" :> exp) @@ data
    IN  jwt_encode(to_encode, SECRET_KEY, ALGORITHM)

(* the except-branch / pass-through of the request handlers in server.py *)
api_post_issue_api_key(outcome) ==
    IF outcome.kind = "return"
    THEN [status_code |-> 200, body |-> outcome.value]
    ELSE [status_code |-> 500,
          body |-> [error |-> <<outcome.status_code, outcome.detail>>]]

api_post_authenticate_user(outcome) ==
    IF outcome.kind = "return"
    THEN [status_code |-> 200, body |-> outcome.value]
    ELSE [status_code |-> 500,
          body |-> [error |-> <<outcome.status_code, outcome.detail>>]]

NoResponse == [status_code |-> 0]

VARIABLES
    db,          \* the User table: id -> row
    now,         \* the clock, in minutes
    uuidCount,   \* uuid4 values drawn so far
    pc,          \* per call: where the coroutine is
    req,         \* per call: the request's arguments
    local,       \* per call: the coroutine's local variables
    outcome,     \* per call: what the service function returned or raised
    response,    \* per call: the handler's HTTP response
    trace,       \* per call: the stages executed, in order
    reads,       \* per call: repository reads issued
    writes,      \* per call: repository writes issued
    lastReturned,\* per user id: the key of the latest returned grant
    lastWritten, \* per user id: the key of the latest applied update
    mintArgs,    \* direct Token Minter call: arguments
    mintOut      \* direct Token Minter call: result

vars == <<db, now, uuidCount, pc, req, local, outcome, response, trace,
          reads, writes, lastReturned, lastWritten, mintArgs, mintOut>>
mintVars == <<mintArgs, mintOut>>
callVars == <<pc, req, local, outcome, response, trace, reads, writes>>
histVars == <<lastReturned, lastWritten>>

NoReq == [op |-> "none"]
NoLocal == [call |-> "none"]

(* binding a local variable of the coroutine *)
Bind(frame, name, value) == (name :> value) @@ frame

Init ==
    /\ db = InitialDb
    /\ now = 0
    /\ uuidCount = 0
    /\ pc = [p \in Calls |-> "idle"]
    /\ req = [p \in Calls |-> NoReq]
    /\ local = [p \in Calls |-> NoLocal]
    /\ outcome = [p \in Calls |-> NoOutcome]
    /\ response = [p \in Calls |-> NoResponse]
    /\ trace = [p \in Calls |-> <<>>]
    /\ reads = [p \in Calls |-> 0]
    /\ writes = [p \in Calls |-> 0]
    /\ lastReturned = [i \in UserIds |-> NoKey]
    /\ lastWritten = [i \in UserIds |-> NoKey]
    /\ mintArgs = None
    /\ mintOut = None

Tick ==
    /\ now < MaxClock
    /\ now' = now + 1
    /\ UNCHANGED <<db, uuidCount, callVars, histVars, mintVars>>


(* ---------------- the service raises / returns to its handler --------- *)
(* No suspension point lies between the service function finishing and    *)
(* the handler building its response: one step.                           *)
Finish(p, result, handler_response) ==
    /\ outcome' = [outcome EXCEPT ![p] = result]
    /\ response' = [response EXCEPT ![p] = handler_response]
    /\ pc' = [pc EXCEPT ![p] = "finished"]

(* ----------------------- POST /auth/login/ ---------------------------- *)
StartAuth(p) ==
    /\ pc[p] = "idle"
    /\ \E u \in Handles, w \in Passwords :
          req' = [req EXCEPT ![p] = [op |-> "authenticate",
                                     username |-> u, password |-> w]]
    /\ pc' = [pc EXCEPT ![p] = "LookupUser"]
    /\ UNCHANGED <<db, now, uuidCount, local, outcome, response, trace,
                   reads, writes, histVars, mintVars>>

(* user = await get_user(username) *)
AuthLookup(p) ==
    /\ pc[p] = "LookupUser"
    /\ trace' = [trace EXCEPT ![p] = Append(@, "LookupUser")]
    /\ reads' = [reads EXCEPT ![p] = @ + 1]
    /\ LET user == find_unique_by_email(db, req[p].username)
       IN  IF user_missing(user)
           THEN /\ Finish(p, HTTPException(404, "User not found"),
                          api_post_authenticate_user(
                              HTTPException(404, "User not found")))
                /\ UNCHANGED local
           ELSE /\ local' = [local EXCEPT ![p] = Bind(@, "user", user)]
                /\ pc' = [pc EXCEPT ![p] = "VerifyPassword"]
                /\ UNCHANGED <<outcome, response>>
    /\ UNCHANGED <<db, now, uuidCount, req, writes, histVars, mintVars>>

(* if not await verify_password(password, user.password): raise 401 *)
AuthVerify(p) ==
    /\ pc[p] = "VerifyPassword"
    /\ trace' = [trace EXCEPT ![p] = Append(@, "VerifyPassword")]
    /\ IF ~ verify_password(req[p].password, local[p].user.password)
       THEN Finish(p, HTTPException(401, "Incorrect username or password"),
                   api_post_authenticate_user(
                       HTTPException(401, "Incorrect username or password")))
       ELSE /\ pc' = [pc EXCEPT ![p] = "MintToken"]
            /\ UNCHANGED <<outcome, response>>
    /\ UNCHANGED <<db, now, uuidCount, req, local, reads, writes,
                   histVars, mintVars>>

(* access_token = await create_access_token({"sub": user.email}, 60 min) *)
AuthMint(p) ==
    /\ pc[p] = "MintToken"
    /\ trace' = [trace EXCEPT ![p] = Append(@, "MintToken")]
    /\ LET access_token_expires == timedelta(ACCESS_TOKEN_EXPIRE_MINUTES)
           access_token == create_access_token([sub |-> local[p].user.email],
                                               access_token_expires, now)
       IN  local' = [local EXCEPT ![p] =
                        Bind(Bind(@, "access_token", access_token),
                             "issued_at", now)]
    /\ pc' = [pc EXCEPT ![p] = "Done"]
    /\ UNCHANGED <<db, now, uuidCount, req, outcome, response, reads, writes,
                   histVars, mintVars>>

(* return AuthenticationResponse(access_token=..., token_type="bearer") *)
AuthDone(p) ==
    /\ pc[p] = "Done"
    /\ trace' = [trace EXCEPT ![p] = Append(@, "Done")]
    /\ LET res == Returned([access_token |-> local[p].access_token,
                            token_type |-> "bearer"])
       IN  Finish(p, res, api_post_authenticate_user(res))
    /\ UNCHANGED <<db, now, uuidCount, req, local, reads, writes,
                   histVars, mintVars>>

(* ----------------------- POST /auth/api-key/ -------------------------- *)
StartIssue(p) ==
    /\ pc[p] = "idle"
    /\ \E i \in RequestIds, perms \in Permissions :
          req' = [req EXCEPT ![p] = [op |-> "issue_api_key",
                                     user_id |-> i, permissions |-> perms]]
    /\ pc' = [pc EXCEPT ![p] = "FindUser"]
    /\ UNCHANGED <<db, now, uuidCount, local, outcome, response, trace,
                   reads, writes, histVars, mintVars>>

(* user = await User.prisma().find_unique(where={"id": user_id}) *)
IssueFind(p) ==
    /\ pc[p] = "FindUser"
    /\ trace' = [trace EXCEPT ![p] = Append(@, "FindUser")]
    /\ reads' = [reads EXCEPT ![p] = @ + 1]
    /\ local' = [local EXCEPT ![p] =
                    Bind(@, "user", find_unique_by_id(db, req[p].user_id))]
    /\ pc' = [pc EXCEPT ![p] = "Authorize"]
    /\ UNCHANGED <<db, now, uuidCount, req, outcome, response, writes,
                   histVars, mintVars>>

(* the 404 check, the role check, uuid4() and the expiration date *)
IssueAuthorize(p) ==
    /\ pc[p] = "Authorize"
    /\ trace' = [trace EXCEPT ![p] = Append(@, "Authorize")]
    /\ IF user_missing(local[p].user)
       THEN /\ Finish(p, HTTPException(404, "User not found."),
                      api_post_issue_api_key(
                          HTTPException(404, "User not found.")))
            /\ UNCHANGED <<local, uuidCount>>
       ELSE IF role_denied(local[p].user)
       THEN /\ Finish(p, HTTPException(403, "Insufficient permissions."),
                      api_post_issue_api_key(
                          HTTPException(403, "Insufficient permissions.")))
            /\ UNCHANGED <<local, uuidCount>>
       ELSE /\ uuidCount' = uuidCount + 1
            /\ local' = [local EXCEPT ![p] =
                  Bind(Bind(@, "new_api_key", uuid4(uuidCount + 1)),
                       "expiration_date",
                       now + API_KEY_EXPIRE_DAYS * MINUTES_PER_DAY)]
            /\ pc' = [pc EXCEPT ![p] = "Update"]
            /\ UNCHANGED <<outcome, response>>
    /\ UNCHANGED <<db, now, req, reads, writes, histVars, mintVars>>

(* an update issued twice *)
IssueUpdate_twice(p) ==
    /\ pc[p] = "Update"
    /\ trace' = [trace EXCEPT ![p] = Append(@, "Update")]
    /\ writes' = [writes EXCEPT ![p] = @ + 2]
    /\ db' = update_apiKey(update_apiKey(db, req[p].user_id,
                                         local[p].new_api_key),
                           req[p].user_id, local[p].new_api_key)
    /\ lastWritten' = [lastWritten EXCEPT
                          ![req[p].user_id] = local[p].new_api_key]
    /\ pc' = [pc EXCEPT ![p] = "Return"]
    /\ UNCHANGED <<now, uuidCount, req, local, outcome, response, reads,
                   lastReturned, mintVars>>

(* await User.prisma().update(where={"id": user_id}, data={"apiKey": key}) *)
IssueUpdate(p) ==
    /\ pc[p] = "Update"
    /\ trace' = [trace EXCEPT ![p] = Append(@, "Update")]
    /\ writes' = [writes EXCEPT ![p] = @ + 1]
    /\ db' = update_apiKey(db, req[p].user_id, local[p].new_api_key)
    /\ lastWritten' = [lastWritten EXCEPT
                          ![req[p].user_id] = local[p].new_api_key]
    /\ pc' = [pc EXCEPT ![p] = "Return"]
    /\ UNCHANGED <<now, uuidCount, req, local, outcome, response, reads,
                   lastReturned, mintVars>>

(* return IssueApiKeyResponse(api_key, permissions, expiration_date) *)
IssueReturn(p) ==
    /\ pc[p] = "Return"
    /\ trace' = [trace EXCEPT ![p] = Append(@, "Return")]
    /\ LET res == Returned([api_key |-> local[p].new_api_key,
                            permissions |-> req[p].permissions,
                            expiration_date |-> local[p].expiration_date])
       IN  Finish(p, res, api_post_issue_api_key(res))
    /\ lastReturned' = [lastReturned EXCEPT
                           ![req[p].user_id] = local[p].new_api_key]
    /\ UNCHANGED <<db, now, uuidCount, req, local, reads, writes,
                   lastWritten, mintVars>>

(* ------------------------- specifications ----------------------------- *)
Next ==
    \/ Tick
    \/ \E p \in Calls : StartAuth(p)
    \/ \E p \in Calls : AuthLookup(p)
    \/ \E p \in Calls : AuthVerify(p)
    \/ \E p \in Calls : AuthMint(p)
    \/ \E p \in Calls : AuthDone(p)
    \/ \E p \in Calls : StartIssue(p)
    \/ \E p \in Calls : IssueFind(p)
    \/ \E p \in Calls : IssueAuthorize(p)
    \/ \E p \in Calls : IssueUpdate(p)
    \/ \E p \in Calls : IssueReturn(p)

Spec == Init /\ [][Next]_vars

(* Calls issued one after the other: a call starts only when no other    *)
(* call is in flight.                                                     *)
Quiescent == \A p \in Calls : pc[p] \in {"idle", "finished"}

SeqStartAuth(p) == Quiescent /\ StartAuth(p)
SeqStartIssue(p) == Quiescent /\ StartIssue(p)

NextSeq ==
    \/ Tick
    \/ \E p \in Calls : SeqStartAuth(p)
    \/ \E p \in Calls : AuthLookup(p)
    \/ \E p \in Calls : AuthVerify(p)
    \/ \E p \in Calls : AuthMint(p)
    \/ \E p \in Calls : AuthDone(p)
    \/ \E p \in Calls : SeqStartIssue(p)
    \/ \E p \in Calls : IssueFind(p)
    \/ \E p \in Calls : IssueAuthorize(p)
    \/ \E p \in Calls : IssueUpdate(p)
    \/ \E p \in Calls : IssueReturn(p)

SpecSeq == Init /\ [][NextSeq]_vars

(* The Token Minter called on its own, with any claims and any ttl.       *)
MintData ==
    { [sub |-> h] : h \in Handles } \cup
    { [sub |-> h, exp |-> 0] : h \in Handles }
MintDeltas ==
    { NoDelta, timedelta(0), timedelta(1), timedelta(DEFAULT_EXPIRE_MINUTES),
      timedelta(ACCESS_TOKEN_EXPIRE_MINUTES), timedelta(-1) }

MintCall ==
    /\ \E data \in MintData, expires_delta \in MintDeltas :
          /\ mintArgs' = [data |-> data, expires_delta |-> expires_delta,
                          at |-> now]
          /\ mintOut' = create_access_token(data, expires_delta, now)
    /\ UNCHANGED <<db, now, uuidCount, callVars, histVars>>

NextMint ==
    \/ Tick
    \/ MintCall

SpecMint == Init /\ [][NextMint]_vars

(* ============================ properties ============================== *)
IsAuth(p) == req[p].op = "authenticate"
IsIssue(p) == req[p].op = "issue_api_key"
Finished(p) == pc[p] = "finished"
Raised(p, code) ==
    outcome[p].kind = "raise" /\ outcome[p].status_code = code
ReturnedOk(p) == outcome[p].kind = "return"
Has(p, name) == name \in DOMAIN local[p]

ExistsId(i) == i \in DOMAIN db
IsAdminId(i) == ExistsId(i) /\ db[i].role = ADMIN
ExistsHandle(h) == \E i \in DOMAIN db : db[i].email = h
RowOfHandle(h) == db[CHOOSE i \in DOMAIN db : db[i].email = h]
CorrectPassword(h, w) ==
    ExistsHandle(h) /\ RowOfHandle(h).password = bcrypt_hash(w)
ApiKeys(table) == [i \in DOMAIN table |-> table[i].apiKey]
IsPrefix(s, t) == Len(s) <= Len(t) /\ s = SubSeq(t, 1, Len(s))

(* ----- C1 ------------------------------------------------------------- *)
C1_State ==
    \A p \in Calls : IsIssue(p) =>
        LET i == req[p].user_id IN
        /\ (Finished(p) /\ ~ ExistsId(i)) => Raised(p, 404)
        /\ (Finished(p) /\ ExistsId(i) /\ db[i].role # ADMIN) => Raised(p, 403)
        /\ (Finished(p) /\ IsAdminId(i)) => ReturnedOk(p)
        /\ writes[p] > 0 => IsAdminId(i)
        /\ outcome[p].kind = "raise" => writes[p] = 0

C1_Step ==
    \A p \in Calls :
        (pc'[p] # pc[p] /\ IsIssue(p)' /\ ~ IsAdminId(req'[p].user_id))
            => ApiKeys(db') = ApiKeys(db)

(* C1: issue_api_key writes to the repository only when the user with the  *)
(* given id exists and has role ADMIN; an unknown id ends in 404, an       *)
(* existing non-ADMIN user in 403, and no step of such a failing call      *)
(* changes the api key of any user record.                                 *)
C1_IssueWritesOnlyForAdmin == [] C1_State /\ [][C1_Step]_vars

C1_Witness ==
    \E p, q \in Calls :
        /\ IsIssue(p) /\ Finished(p) /\ Raised(p, 404)
        /\ IsIssue(q) /\ Finished(q) /\ Raised(q, 403)

(* ----- C2 ------------------------------------------------------------- *)
AuthStages == <<"LookupUser", "VerifyPassword", "MintToken", "Done">>

IssuedOk(p) == IsIssue(p) /\ Finished(p) /\ ReturnedOk(p)

(* C3: with calls issued one after the other, two grants never carry the   *)
(* same key, and whenever no call is in flight every user for whom a key   *)
(* was returned has on record exactly the key returned by the most recent  *)
(* successful issuance, so no earlier returned key is still on record.     *)
C3_SequentialIssueOverwrites ==
    /\ \A p, q \in Calls :
          (p # q /\ IssuedOk(p) /\ IssuedOk(q)) =>
              outcome[p].value.api_key # outcome[q].value.api_key
    /\ Quiescent =>
          \A i \in UserIds :
              lastReturned[i] # NoKey => db[i].apiKey = lastReturned[i]
    /\ Quiescent =>
          \A p \in Calls :
              (IssuedOk(p) /\ outcome[p].value.api_key
                                 # lastReturned[req[p].user_id])
              => \A j \in UserIds : db[j].apiKey # outcome[p].value.api_key

C3_Witness ==
    \E p, q \in Calls :
        /\ p # q /\ IssuedOk(p) /\ IssuedOk(q)
        /\ req[p].user_id = req[q].user_id
        /\ db[req[p].user_id].apiKey = outcome[q].value.api_key
        /\ lastReturned[req[p].user_id] = outcome[q].value.api_key

(* ----- C4 ------------------------------------------------------------- *)
(* C4: every NotFound, Unauthorized or Denied raised by authenticate or    *)
(* issue_api_key reaches the caller of the request handler as its own      *)
(* status (404, 401, 403), never as the generic failure status.            *)
C4_HandlersSurfaceTypedErrors ==
    \A p \in Calls :
        (Finished(p) /\ outcome[p].kind = "raise") =>
            response[p].status_code = outcome[p].status_code

(* ----- C5 ------------------------------------------------------------- *)
CallStep(p) ==
    \/ AuthLookup(p) \/ AuthVerify(p) \/ AuthMint(p) \/ AuthDone(p)
    \/ IssueFind(p) \/ IssueAuthorize(p) \/ IssueUpdate(p) \/ IssueReturn(p)

WritePending(i) ==
    \E p \in Calls : IsIssue(p) /\ req[p].user_id = i
                     /\ pc[p] \in {"FindUser", "Authorize", "Update"}

(* C5: under every interleaving, a call in flight can always take its next *)
(* step, a call for an ADMIN user is never rejected, any two calls hold    *)
(* different keys, and once no call for a user has a write outstanding the *)
(* user's record holds the key of the update applied last while every      *)
(* other returned key is on no user record.                                *)
C5_ConcurrentIssueLastWriteWins ==
    /\ \A p \in Calls :
          pc[p] \notin {"idle", "finished"} => ENABLED CallStep(p)
    /\ \A p \in Calls :
          (IsIssue(p) /\ Finished(p) /\ IsAdminId(req[p].user_id))
              => ReturnedOk(p)
    /\ \A p, q \in Calls :
          (p # q /\ Has(p, "new_api_key") /\ Has(q, "new_api_key"))
              => local[p].new_api_key # local[q].new_api_key
    /\ \A i \in UserIds :
          (~ WritePending(i) /\ lastWritten[i] # NoKey) =>
              /\ db[i].apiKey = lastWritten[i]
              /\ \A p \in Calls :
                    (IssuedOk(p) /\ req[p].user_id = i
                        /\ outcome[p].value.api_key # lastWritten[i])
                    => \A j \in UserIds :
                          db[j].apiKey # outcome[p].value.api_key

(* two overlapping calls for one user: the key drawn first was written last *)
C5_Witness ==
    \E p, q \in Calls :
        /\ p # q /\ IssuedOk(p) /\ IssuedOk(q)
        /\ req[p].user_id = req[q].user_id
        /\ outcome[p].value.api_key = uuid4(1)
        /\ outcome[q].value.api_key = uuid4(2)
        /\ db[req[p].user_id].apiKey = uuid4(1)

(* ----- C6 ------------------------------------------------------------- *)
(* C6: for an existing user and the correct password, authenticate returns *)
(* a token whose subject is the user's handle and whose expiry is exactly  *)
(* 60 minutes after the time of issuance, with token type "bearer".        *)
C6_LoginTokenSubjectAndExpiry ==
    \A p \in Calls : IsAuth(p) =>
        /\ (Finished(p) /\ CorrectPassword(req[p].username, req[p].password))
              => ReturnedOk(p)
        /\ ReturnedOk(p) =>
              LET token == outcome[p].value.access_token IN
              /\ token.payload.sub = req[p].username
              /\ token.payload.sub = RowOfHandle(req[p].username).email
              /\ token.payload.exp
                     = local[p].issued_at + ACCESS_TOKEN_EXPIRE_MINUTES
              /\ outcome[p].value.token_type = "bearer"
              /\ response[p].body = outcome[p].value

C6_Witness ==
    \E p \in Calls :
        /\ IsAuth(p) /\ Finished(p) /\ ReturnedOk(p)
        /\ local[p].issued_at = 1
        /\ req[p].username = "bob"

(* ----- C7 ------------------------------------------------------------- *)
(* C7: a failed authenticate does not tell whether the handle exists: a    *)
(* failure for an unknown handle and a failure for an existing handle with *)
(* a wrong password produce the same error.                                *)
C7_FailuresIndistinguishable ==
    \A p, q \in Calls :
        ( /\ IsAuth(p) /\ Finished(p) /\ outcome[p].kind = "raise"
          /\ IsAuth(q) /\ Finished(q) /\ outcome[q].kind = "raise"
          /\ ~ ExistsHandle(req[p].username)
          /\ ExistsHandle(req[q].username) )
        => outcome[p] = outcome[q]

(* ----- C9 ------------------------------------------------------------- *)
IssueStages == <<"FindUser", "Authorize", "Update", "Return">>

(* C9: a call reads the repository at most once and writes it at most      *)
(* once; authenticate does exactly one lookup and never writes;            *)
(* issue_api_key does exactly one lookup and at most one update, and the   *)
(* update comes after the lookup and the role check.                       *)
C9_OneReadAtMostOneWrite ==
    \A p \in Calls :
        /\ reads[p] <= 1 /\ writes[p] <= 1
        /\ IsAuth(p) =>
              /\ writes[p] = 0
              /\ Finished(p) => reads[p] = 1
        /\ IsIssue(p) =>
              /\ Finished(p) => reads[p] = 1
              /\ IsPrefix(trace[p], IssueStages)
              /\ writes[p] = 1 =>
                    /\ IsPrefix(<<"FindUser", "Authorize", "Update">>, trace[p])
                    /\ reads[p] = 1
                    /\ ~ role_denied(local[p].user)
              /\ (Finished(p) /\ ReturnedOk(p)) => writes[p] = 1

C9_Witness ==
    \E p, q \in Calls :
        /\ IsIssue(p) /\ Finished(p) /\ writes[p] = 1
        /\ IsAuth(q) /\ Finished(q) /\ reads[q] = 1

(* ----- C10 ------------------------------------------------------------ *)
(* C10: create_access_token sets exp to the current time plus the ttl for  *)
(* every ttl the caller supplies, a zero-length ttl included, uses the     *)
(* 15-minute default only when no ttl is supplied, and carries the         *)
(* caller's other claims into the token unchanged.                         *)
C10_ExpiryIsNowPlusTtl ==
    mintArgs # None =>
        LET d == mintArgs.expires_delta
            payload == mintOut.payload
        IN
        /\ d # NoDelta => payload.exp = mintArgs.at + Minutes(d)
        /\ d = NoDelta => payload.exp = mintArgs.at + DEFAULT_EXPIRE_MINUTES
        /\ \A k \in DOMAIN mintArgs.data \ {"exp"} :
              payload[k] = mintArgs.data[k]

=============================================================================
